---------------------------- MODULE Spec2Model ----------------------------
(***************************************************************************)
(* Model of src/index.ts: the training pipeline (glob, exclusion filters,  *)
(* read, split, embed/build, save) and the chat session loop (load index,  *)
(* prompt, retrieve, generate, history).                                   *)
(*                                                                         *)
(* JavaScript strings are modelled as sequences of one-character strings,  *)
(* so that trim, toLowerCase, split, includes, extname and concatenation   *)
(* are computed the way the code computes them.                            *)
(***************************************************************************)
EXTENDS Integers, Sequences, FiniteSets, TLC

(***************************************************************************)
(* Bounds of the exploration.                                              *)
(***************************************************************************)
MaxFiles == 2
MaxTurns == 2

(***************************************************************************)
(* Program constants.                                                      *)
(***************************************************************************)
VECTOR_STORE_NAME == <<"v", "e", "c", "t", "o", "r", "S", "t", "o", "r", "e">>
SYSTEM_EXCLUDE_FOLDERS == <<"n", "o", "d", "e", "_", "m", "o", "d", "u", "l", "e", "s", ",", " ", "v", "e", "c", "t", "o", "r", "S", "t", "o", "r", "e">>
SYSTEM_EXCLUDE_EXTENSIONS ==
  << <<".", "j", "p", "g">>, <<".", "j", "p", "e", "g">>, <<".", "p", "n", "g">>, <<".", "g", "i", "f">>, <<".", "b", "m", "p">>, <<".", "t", "i", "f", "f">>,
     <<".", "i", "c", "o">>, <<".", "s", "v", "g">>, <<".", "w", "e", "b", "p">>, <<".", "m", "p", "3">>, <<".", "w", "a", "v">> >>
SYSTEM_EXCLUDE_FILES == << <<"p", "a", "c", "k", "a", "g", "e", "-", "l", "o", "c", "k", ".", "j", "s", "o", "n">> >>
searchPattern == <<"*", "*", "/", "*", ".", "*">>
NodeModulesIgnore == <<"*", "*", "/", "n", "o", "d", "e", "_", "m", "o", "d", "u", "l", "e", "s", "/", "*", "*">>
IgnoreSuffix == <<"/", "*", "*", "/", "*">>
RetrievalK == 1
chunkSize == 500
chunkOverlap == 1
ExitWord == <<"e", "x", "i", "t">>
HumanPrefix == <<"H", "u", "m", "a", "n", ":", " ">>
AssistantPrefix == <<"A", "s", "s", "i", "s", "t", "a", "n", "t", ":", " ">>
FileNamePrefix == <<"F", "I", "L", "E", " ", "N", "A", "M", "E", ":", " ">>
FileNameSuffix == <<" ", "\n", "#", "#", "#", "#", "#", "#", "\n", " ">>
ContextDelimiter == <<"\n", "\n">>

(***************************************************************************)
(* String primitives of the JavaScript runtime used by the program.        *)
(***************************************************************************)
WhiteSpace == {" ", "\t", "\n", "\r"}

RECURSIVE TrimStart(_)
TrimStart(s) ==
  IF s # <<>> /\ Head(s) \in WhiteSpace THEN TrimStart(Tail(s)) ELSE s

RECURSIVE TrimEnd(_)
TrimEnd(s) ==
  IF s # <<>> /\ s[Len(s)] \in WhiteSpace
  THEN TrimEnd(SubSeq(s, 1, Len(s) - 1)) ELSE s

Trim(s) == TrimEnd(TrimStart(s))

UpperLetters == <<"A", "B", "C", "D", "E", "F", "G", "H", "I", "J", "K", "L", "M", "N", "O", "P", "Q", "R", "S", "T", "U", "V", "W", "X", "Y", "Z">>
LowerLetters == <<"a", "b", "c", "d", "e", "f", "g", "h", "i", "j", "k", "l", "m", "n", "o", "p", "q", "r", "s", "t", "u", "v", "w", "x", "y", "z">>

LowerOf(c) ==
  IF \E i \in 1..26 : UpperLetters[i] = c
  THEN LowerLetters[CHOOSE i \in 1..26 : UpperLetters[i] = c]
  ELSE c

ToLowerCase(s) == [i \in 1..Len(s) |-> LowerOf(s[i])]

\* s.split(c): the pieces of s between the occurrences of the character c
RECURSIVE Split(_, _)
Split(s, c) ==
  IF \A i \in 1..Len(s) : s[i] # c
  THEN << s >>
  ELSE LET i == CHOOSE j \in 1..Len(s) :
                  s[j] = c /\ \A k \in 1..(j - 1) : s[k] # c
       IN  << SubSeq(s, 1, i - 1) >> \o Split(SubSeq(s, i + 1, Len(s)), c)

\* arr.join(d)
RECURSIVE Join(_, _)
Join(arr, d) ==
  IF arr = <<>> THEN <<>>
  ELSE IF Len(arr) = 1 THEN arr[1]
  ELSE arr[1] \o d \o Join(Tail(arr), d)

\* s.includes(sub)
Includes(s, sub) ==
  \E i \in 0..(Len(s) - Len(sub)) : SubSeq(s, i + 1, i + Len(sub)) = sub

\* arr.includes(x)
ArrayIncludes(arr, x) == \E i \in 1..Len(arr) : arr[i] = x

\* arr.map(el => el.trim())
MapTrim(arr) == [i \in 1..Len(arr) |-> Trim(arr[i])]

Min(a, b) == IF a < b THEN a ELSE b

(***************************************************************************)
(* Paths.  A platform is "posix" or "win32"; glob and path use its         *)
(* separator in the relative paths they return and parse.                  *)
(***************************************************************************)
Platforms == {"posix", "win32"}

Sep(plat) == IF plat = "win32" THEN "\\" ELSE "/"

IsSep(c, plat) == c = "/" \/ (plat = "win32" /\ c = "\\")

\* the relative path string glob returns for a list of path components
RelPath(comps, plat) == Join(comps, << Sep(plat) >>)

\* the last portion of a path
RECURSIVE BaseName(_, _)
BaseName(p, plat) ==
  IF \A i \in 1..Len(p) : ~IsSep(p[i], plat)
  THEN p
  ELSE BaseName(Tail(p), plat)

\* path.extname(p)
ExtName(p, plat) ==
  LET b    == BaseName(p, plat)
      dots == {i \in 1..Len(b) : b[i] = "."}
  IN  IF dots = {} THEN <<>>
      ELSE LET m == CHOOSE i \in dots : \A j \in dots : j <= i
           IN  IF m = 1 \/ b = <<".", ".">> THEN <<>> ELSE SubSeq(b, m, Len(b))

(***************************************************************************)
(* Inputs: the environment and what the user types at the prompts.         *)
(***************************************************************************)
\* process.env.OPENAI_API_KEY: unset, or a string
APIKeys ==
  { [set |-> FALSE, value |-> <<>>],
    [set |-> TRUE,  value |-> <<>>],
    [set |-> TRUE,  value |-> <<" ", " ">>],
    [set |-> TRUE,  value |-> <<"s", "k">>] }

\* entries of the working directory, as path components; isDir marks a
\* directory (glob returns directories too, the pattern has no nodir option)
Entry(comps, isDir) == [comps |-> comps, isDir |-> isDir]

UserEntries ==
  { Entry(<< <<"a", ".", "t", "x", "t">> >>, FALSE),
    Entry(<< <<"l", "o", "g", "o", ".", "p", "n", "g">> >>, FALSE),
    Entry(<< <<"M", "a", "k", "e", "f", "i", "l", "e">> >>, FALSE),
    Entry(<< <<".", "e", "n", "v">> >>, FALSE),
    Entry(<< <<"v", "1", ".", "0">> >>, TRUE),
    Entry(<< <<"p", "a", "c", "k", "a", "g", "e", "-", "l", "o", "c", "k", ".", "j", "s", "o", "n">> >>, FALSE),
    Entry(<< <<"s", "u", "b">>, <<"p", "a", "c", "k", "a", "g", "e", "-", "l", "o", "c", "k", ".", "j", "s", "o", "n">> >>, FALSE),
    Entry(<< <<"s", "u", "b">>, <<"n", "o", "d", "e", "_", "m", "o", "d", "u", "l", "e", "s">>, <<"m", ".", "j", "s">> >>, FALSE),
    Entry(<< <<"b", "i", "n">>, <<"x", ".", "j", "s">> >>, FALSE),
    Entry(<< <<"s", "b", "i", "n">>, <<"y", ".", "j", "s">> >>, FALSE) }

\* content of every regular file of the model
FileContent == <<"h", "i">>

\* the persisted index location: absent, an incomplete directory, or a
\* complete index holding the chunk texts
NoIndex      == [state |-> "none",    docs |-> <<>>]
PartialIndex == [state |-> "partial", docs |-> <<>>]
Index(d)     == [state |-> "index",   docs |-> d]

InitialDisks ==
  { NoIndex, PartialIndex,
    Index(<< <<"f", "u", "n", "c", "t", "i", "o", "n", " ", "a", "d", "d", "(", "a", ",", "b", ")", "{", "r", "e", "t", "u", "r", "n", " ", "a", "+", "b", ";", "}">> >>),
    Index(<< <<"c", "1">>, <<"c", "2">> >>) }

\* the files HNSWLib.save writes into the index directory
StoreFileNames(d) ==
  IF d.state = "none" THEN {}
  ELSE IF d.state = "partial" THEN { <<"a", "r", "g", "s", ".", "j", "s", "o", "n">> }
  ELSE { <<"a", "r", "g", "s", ".", "j", "s", "o", "n">>, <<"d", "o", "c", "s", "t", "o", "r", "e", ".", "j", "s", "o", "n">>, <<"h", "n", "s", "w", "l", "i", "b", ".", "i", "n", "d", "e", "x">> }

StoreEntries(d) == { Entry(<< VECTOR_STORE_NAME, n >>, FALSE) : n \in StoreFileNames(d) }

\* answers typed at the prompts of main
FolderAnswers    == { <<>>, <<"b", "i", "n">> }
ExtensionAnswers == { <<>>, <<".", "m", "d", ",", " ", ".", "t", "x", "t">> }
FileAnswers      == { <<>>, <<"a", ".", "t", "x", "t">> }
LanguageAnswers  == { <<>>, <<"e", "s">> }

\* lines typed at the question prompt of the chat loop
Questions == { <<"h", "i">>, <<"e", "x", "i", "t", "s">>, <<"e", "x", "i", "t">>, <<" ", "E", "x", "i", "t", " ">>, <<"E", "X", "I", "T">>, <<" ">> }

\* completions the generation service may return
Completions == { <<"a", "1">>, <<"a", "2">> }

NoAnswers ==
  [selectedAction |-> "none", excludedFolders |-> <<>>,
   excludedExtensions |-> <<>>, excludedFiles |-> <<>>, language |-> <<>>]

NoArgs == [excludeDir |-> <<>>, excludeExt |-> <<>>, excludeFiles |-> <<>>]

(***************************************************************************)
(* State.                                                                  *)
(***************************************************************************)
VARIABLES
  platform,      \* the platform the process runs on
  apiKey,        \* process.env.OPENAI_API_KEY
  disk,          \* the persisted index location
  disk0,         \* the persisted index location when the process started
  pc,            \* position of the program
  answers,       \* the answers collected by the prompts of main
  args,          \* the arguments of training
  tree,          \* entries of the working directory seen by glob
  files,         \* training: the filtered path list
  nextFile,      \* training: index of the next file of the read loop
  readLog,       \* the paths handed to fs.readFileSync so far
  data,          \* training: the texts to split
  docs,          \* training: the chunks
  trainingStore, \* training: the in-memory index
  saveState,     \* the promise of trainingStore.save
  reported,      \* "VectorStore saved" was printed
  error,         \* the error a rejected call raised
  store,         \* chat: the loaded index (module-level)
  history,       \* chat: the conversation history
  userQuestion,  \* chat: the line read by the last prompt
  question,      \* chat: the loop variable
  searchData,    \* generateResponse: the retrieved page contents
  asked,         \* the non-exit questions read so far
  retrievals,    \* the similaritySearch calls made so far
  requests,      \* the llmChain.predict calls made so far
  completions    \* the completions received so far

vars ==
  << platform, apiKey, disk, disk0, pc, answers, args, tree, files, nextFile,
     readLog, data, docs, trainingStore, saveState, reported, error, store,
     history, userQuestion, question, searchData, asked, retrievals,
     requests, completions >>

envVars      == << platform, apiKey, disk0 >>
trainingVars == << tree, files, nextFile, readLog, data, docs, trainingStore,
                   saveState, reported >>
chatVars     == << store, history, userQuestion, question, searchData, asked,
                   retrievals, requests, completions >>

Init ==
  /\ platform \in Platforms
  /\ apiKey \in APIKeys
  /\ disk \in InitialDisks
  /\ disk0 = disk
  /\ pc = "main"
  /\ answers = NoAnswers
  /\ args = NoArgs
  /\ tree = {}
  /\ files = <<>>
  /\ nextFile = 1
  /\ readLog = <<>>
  /\ data = <<>>
  /\ docs = <<>>
  /\ trainingStore = <<>>
  /\ saveState = "idle"
  /\ reported = FALSE
  /\ error = "none"
  /\ store = <<>>
  /\ history = <<>>
  /\ userQuestion = <<>>
  /\ question = <<>>
  /\ searchData = <<>>
  /\ asked = <<>>
  /\ retrievals = <<>>
  /\ requests = <<>>
  /\ completions = <<>>

(***************************************************************************)
(* main                                                                    *)
(***************************************************************************)
\* the check without the trim: a key of spaces counts as a credential
KeyMissing_NoTrim(key) == ~key.set \/ key.value = <<>>

\* !process.env.OPENAI_API_KEY || process.env.OPENAI_API_KEY.trim() === ''
KeyMissing(key) == ~key.set \/ key.value = <<>> \/ Trim(key.value) = <<>>

\* the credential check; without a key main returns before any prompt
Main ==
  /\ pc = "main"
  /\ pc' = IF KeyMissing(apiKey) THEN "returned" ELSE "prompt"
  /\ UNCHANGED << envVars, disk, answers, args, trainingVars, error, chatVars >>

\* the arguments main computes for training from the answers
AllExcludedFolders(a) == SYSTEM_EXCLUDE_FOLDERS \o <<",", " ">> \o a.excludedFolders
AllExcludedExtensions(a) ==
  SYSTEM_EXCLUDE_EXTENSIONS \o MapTrim(Split(a.excludedExtensions, ","))
AllExcludedFiles(a) ==
  SYSTEM_EXCLUDE_FILES \o MapTrim(Split(a.excludedFiles, ","))

\* the prompts are answered with action "training"
MainTraining ==
  /\ pc = "prompt"
  /\ \E f \in FolderAnswers, e \in ExtensionAnswers, x \in FileAnswers :
       LET a == [selectedAction |-> "training", excludedFolders |-> f,
                 excludedExtensions |-> e, excludedFiles |-> x,
                 language |-> <<>>]
       IN  /\ answers' = a
           /\ args' = [excludeDir   |-> AllExcludedFolders(a),
                       excludeExt   |-> AllExcludedExtensions(a),
                       excludeFiles |-> AllExcludedFiles(a)]
  /\ pc' = "training"
  /\ UNCHANGED << envVars, disk, trainingVars, error, chatVars >>

\* the prompts are answered with action "chat"
MainChat ==
  /\ pc = "prompt"
  /\ \E l \in LanguageAnswers :
       answers' = [selectedAction |-> "chat", excludedFolders |-> <<>>,
                   excludedExtensions |-> <<>>, excludedFiles |-> <<>>,
                   language |-> l]
  /\ pc' = "chat"
  /\ UNCHANGED << envVars, disk, args, trainingVars, error, chatVars >>

(***************************************************************************)
(* glob: pattern matching over path components.                            *)
(***************************************************************************)
\* a pattern segment against one path component; dot is glob's dot option
SegMatch(seg, comp, dot) ==
  /\ comp # <<>>
  /\ IF seg = <<"*">> THEN dot \/ Head(comp) # "."
     ELSE IF seg = <<"*", ".", "*">>
       THEN (dot \/ Head(comp) # ".") /\ \E i \in 1..Len(comp) : comp[i] = "."
     ELSE seg = comp

\* a pattern (its segments) against a path (its components)
RECURSIVE GlobMatch(_, _, _)
GlobMatch(segs, comps, dot) ==
  IF segs = <<>> THEN comps = <<>>
  ELSE IF Head(segs) = <<"*", "*">>
    THEN \/ GlobMatch(Tail(segs), comps, dot)
         \/ /\ comps # <<>>
            /\ (dot \/ Head(comps) = <<>> \/ Head(Head(comps)) # ".")
            /\ GlobMatch(segs, Tail(comps), dot)
    ELSE /\ comps # <<>>
         /\ SegMatch(Head(segs), Head(comps), dot)
         /\ GlobMatch(Tail(segs), Tail(comps), dot)

\* the alternatives of the brace set `{${excludeDir}}`: the pieces between
\* the commas, as they are (brace expansion does not trim)
BraceExpand(body) == Split(body, ",")

\* ignore: ['**/node_modules/**', `{${excludeDir}}/**/*`], braces expanded
IgnorePatterns(excludeDir) ==
  LET parts == BraceExpand(excludeDir)
  IN  << NodeModulesIgnore >>
        \o [i \in 1..Len(parts) |-> parts[i] \o IgnoreSuffix]

\* ignore patterns are matched with dot: true
Ignored(comps, excludeDir) ==
  LET pats == IgnorePatterns(excludeDir)
  IN  \E i \in 1..Len(pats) : GlobMatch(Split(pats[i], "/"), comps, TRUE)

RECURSIVE SetToSeq(_)
SetToSeq(S) ==
  IF S = {} THEN <<>>
  ELSE LET x == CHOOSE y \in S : TRUE IN << x >> \o SetToSeq(S \ {x})

\* glob(searchPattern, { cwd, ignore }): the relative paths of the entries
\* that match the pattern and no ignore pattern
Glob(t, excludeDir, plat) ==
  SetToSeq({ RelPath(e.comps, plat) :
             e \in { x \in t : /\ GlobMatch(Split(searchPattern, "/"), x.comps, FALSE)
                               /\ ~Ignored(x.comps, excludeDir) } })

(***************************************************************************)
(* training: the three filters                                             *)
(***************************************************************************)
\* excludeDir.split(',').map(el => el.trim())
ExcludedDirArr(excludeDir) == MapTrim(Split(excludeDir, ","))

\* the filter applied to the path instead of its extension
PassesExtFilter_WholePath(el, excludeExt, plat) == ~ArrayIncludes(excludeExt, el)

\* .filter(el => !excludeExt.includes(path.extname(el)))
PassesExtFilter(el, excludeExt, plat) ==
  ~ArrayIncludes(excludeExt, ExtName(el, plat))

\* .filter(el => !excludeFiles.includes(el))
PassesFileFilter(el, excludeFiles) == ~ArrayIncludes(excludeFiles, el)

\* excludedDirArr.find(dir => el.includes(`${dir}\\`)): the first matching
\* element, or undefined
FindDir(arr, el) ==
  LET hits == {i \in 1..Len(arr) : Includes(el, arr[i] \o << "\\" >>)}
  IN  IF hits = {} THEN [found |-> FALSE, value |-> <<>>]
      ELSE [found |-> TRUE,
            value |-> arr[CHOOSE i \in hits : \A j \in hits : i <= j]]

\* .filter(el => !excludedDirArr.find(...)): find's result is negated as a
\* boolean, and the empty string is falsy like undefined
PassesDirFilter(el, excludedDirArr) ==
  LET r == FindDir(excludedDirArr, el)
  IN  ~(r.found /\ r.value # <<>>)

FilteredFiles(t, a, plat) ==
  LET f0 == Glob(t, a.excludeDir, plat)
      f1 == SelectSeq(f0, LAMBDA el : PassesExtFilter(el, a.excludeExt, plat))
      f2 == SelectSeq(f1, LAMBDA el : PassesFileFilter(el, a.excludeFiles))
  IN  SelectSeq(f2, LAMBDA el : PassesDirFilter(el, ExcludedDirArr(a.excludeDir)))

\* the working directories glob may find: at most MaxFiles user entries,
\* plus the files of the persisted index
Trees(d) ==
  { u \cup StoreEntries(d) :
      u \in { s \in SUBSET UserEntries : Cardinality(s) <= MaxFiles } }

\* await glob(...) and the filters
TrainingGlob ==
  /\ pc = "training"
  /\ \E t \in Trees(disk) :
       /\ tree' = t
       /\ files' = FilteredFiles(t, args, platform)
  /\ nextFile' = 1
  /\ data' = <<>>
  /\ pc' = "reading"
  /\ UNCHANGED << envVars, disk, answers, args, readLog, docs, trainingStore,
                  saveState, reported, error, chatVars >>

(***************************************************************************)
(* training: the read loop                                                 *)
(***************************************************************************)
\* the entry path.join(cwd, file) names
EntryOf(t, file, plat) == CHOOSE e \in t : RelPath(e.comps, plat) = file

\* `FILE NAME: ${file} \n######\n ${content}`
DataText(file, content) == FileNamePrefix \o file \o FileNameSuffix \o content

\* one iteration of the loop: the file is read and its text pushed
TrainingRead ==
  /\ pc = "reading"
  /\ nextFile <= Len(files)
  /\ ~EntryOf(tree, files[nextFile], platform).isDir
  /\ readLog' = Append(readLog, files[nextFile])
  /\ data' = Append(data, DataText(files[nextFile], FileContent))
  /\ nextFile' = nextFile + 1
  /\ UNCHANGED << envVars, disk, pc, answers, args, tree, files, docs,
                  trainingStore, saveState, reported, error, chatVars >>

\* the read failure caught and the file skipped, the loop going on
TrainingReadFail_Skips ==
  /\ pc = "reading"
  /\ nextFile <= Len(files)
  /\ readLog' = Append(readLog, files[nextFile])
  /\ error' = "IndexBuildFailed"
  /\ nextFile' = nextFile + 1
  /\ UNCHANGED << envVars, disk, pc, answers, args, tree, files, data, docs,
                  trainingStore, saveState, reported, chatVars >>

\* fs.readFileSync throws (a directory, a permission error): nothing
\* catches it and the promise of training rejects
TrainingReadFail ==
  /\ pc = "reading"
  /\ nextFile <= Len(files)
  /\ readLog' = Append(readLog, files[nextFile])
  /\ error' = "IndexBuildFailed"
  /\ pc' = "rejected"
  /\ UNCHANGED << envVars, disk, answers, args, tree, files, nextFile, data,
                  docs, trainingStore, saveState, reported, chatVars >>

(***************************************************************************)
(* training: split, embed and build, save                                  *)
(***************************************************************************)
\* the pieces of a text longer than chunkSize: windows of chunkSize that
\* overlap by chunkOverlap (the splitter's preference for separators is not
\* modelled; a text of at most chunkSize is one piece)
RECURSIVE Windows(_)
Windows(text) ==
  IF Len(text) <= chunkSize THEN << text >>
  ELSE << SubSeq(text, 1, chunkSize) >>
         \o Windows(SubSeq(text, chunkSize - chunkOverlap + 1, Len(text)))

\* splitter.splitText: every chunk is trimmed, an empty chunk is dropped
SplitText(text) ==
  SelectSeq([i \in 1..Len(Windows(text)) |-> Trim(Windows(text)[i])],
            LAMBDA c : c # <<>>)

\* splitter.splitDocuments(data.map(el => new Document({ pageContent: el })))
RECURSIVE SplitDocuments(_)
SplitDocuments(d) ==
  IF d = <<>> THEN <<>> ELSE SplitText(Head(d)) \o SplitDocuments(Tail(d))

TrainingSplit ==
  /\ pc = "reading"
  /\ nextFile > Len(files)
  /\ docs' = SplitDocuments(data)
  /\ pc' = "building"
  /\ UNCHANGED << envVars, disk, answers, args, tree, files, nextFile, readLog,
                  data, trainingStore, saveState, reported, error, chatVars >>

\* await HNSWLib.fromDocuments(docs, embeddings) resolves
TrainingBuild ==
  /\ pc = "building"
  /\ trainingStore' = docs
  /\ pc' = "built"
  /\ UNCHANGED << envVars, disk, answers, args, tree, files, nextFile, readLog,
                  data, docs, saveState, reported, error, chatVars >>

\* the embedding call or the index build fails: the promise rejects
TrainingBuildFail ==
  /\ pc = "building"
  /\ error' = "EmbeddingUnavailable"
  /\ pc' = "rejected"
  /\ UNCHANGED << envVars, disk, answers, args, tree, files, nextFile, readLog,
                  data, docs, trainingStore, saveState, reported, chatVars >>

\* trainingStore.save(...) is called and its promise dropped; the message
\* is printed and training returns in the same continuation
TrainingSave ==
  /\ pc = "built"
  /\ saveState' = "pending"
  /\ reported' = TRUE
  /\ pc' = "returned"
  /\ UNCHANGED << envVars, disk, answers, args, tree, files, nextFile, readLog,
                  data, docs, trainingStore, error, chatVars >>

\* the save starts to write: the directory exists, the files are incomplete
SaveWrite ==
  /\ saveState = "pending"
  /\ saveState' = "writing"
  /\ disk' = PartialIndex
  /\ UNCHANGED << envVars, pc, answers, args, tree, files, nextFile, readLog,
                  data, docs, trainingStore, reported, error, chatVars >>

\* the save completes
SaveComplete ==
  /\ saveState = "writing"
  /\ saveState' = "done"
  /\ disk' = Index(trainingStore)
  /\ UNCHANGED << envVars, pc, answers, args, tree, files, nextFile, readLog,
                  data, docs, trainingStore, reported, error, chatVars >>

\* the save fails; its promise rejects with nothing awaiting it
SaveFail ==
  /\ saveState \in {"pending", "writing"}
  /\ saveState' = "failed"
  /\ error' = "SaveFailed"
  /\ UNCHANGED << envVars, disk, pc, answers, args, tree, files, nextFile,
                  readLog, data, docs, trainingStore, reported, chatVars >>

(***************************************************************************)
(* chatWithRepo                                                            *)
(***************************************************************************)
\* fs.existsSync(path.join(process.cwd(), VECTOR_STORE_NAME))
ExistsSync(d) == d.state # "none"

\* no persisted index: the message is printed and chatWithRepo returns
ChatIndexNotFound ==
  /\ pc = "chat"
  /\ ~ExistsSync(disk)
  /\ pc' = "returned"
  /\ UNCHANGED << envVars, disk, answers, args, trainingVars, error, chatVars >>

\* HNSWLib.load rejects on an incomplete index directory
ChatLoadFail ==
  /\ pc = "chat"
  /\ ExistsSync(disk)
  /\ disk.state # "index"
  /\ error' = "IndexIncompatible"
  /\ pc' = "rejected"
  /\ UNCHANGED << envVars, disk, answers, args, trainingVars, chatVars >>

\* the index is loaded, the chain built, and the loop entered with an empty
\* history and an empty question
ChatLoad ==
  /\ pc = "chat"
  /\ disk.state = "index"
  /\ store' = disk.docs
  /\ history' = <<>>
  /\ question' = <<>>
  /\ pc' = "AwaitingInput"
  /\ UNCHANGED << envVars, disk, answers, args, trainingVars, error,
                  userQuestion, searchData, asked, retrievals, requests,
                  completions >>

\* the prompt's validate: a blank line is refused and the prompt stays open
Validate(value) == Len(Trim(value)) # 0

\* the normalisation without toLowerCase
NormalizeQuestion_NoLowerCase(value) == Trim(value)

\* userQuestion.trim().toLowerCase()
NormalizeQuestion(value) == ToLowerCase(Trim(value))

\* question !== 'exit' is false
IsExit(q) == q = ExitWord

\* one prompt of the loop: a valid line is read and normalised; on exit the
\* loop condition fails and chatWithRepo returns
ChatPrompt ==
  /\ pc = "AwaitingInput"
  /\ \E value \in Questions :
       /\ Validate(value)
       /\ IsExit(NormalizeQuestion(value)) \/ Len(asked) < MaxTurns
       /\ userQuestion' = value
       /\ question' = NormalizeQuestion(value)
       /\ IF IsExit(NormalizeQuestion(value))
          THEN /\ pc' = "Terminated"
               /\ asked' = asked
          ELSE /\ pc' = "retrieving"
               /\ asked' = Append(asked, value)
  /\ UNCHANGED << envVars, disk, answers, args, trainingVars, error, store,
                  history, searchData, retrievals, requests, completions >>

(***************************************************************************)
(* generateResponse                                                        *)
(***************************************************************************)
\* store.similaritySearch(query, k): min(k, size) distinct entries of the
\* index, most similar first; which ones is the embedding's choice
SimilaritySearch(s, k) ==
  { [i \in 1..Min(k, Len(s)) |-> s[ix[i]]] :
      ix \in { f \in [1..Min(k, Len(s)) -> 1..Len(s)] :
                 \A i, j \in DOMAIN f : i # j => f[i] # f[j] } }

\* data.forEach(item => context.push(item.pageContent)); context.join('\n\n')
Context(d) == Join(d, ContextDelimiter)

\* the retrieval asking for two entries instead of one
GenerateResponseSearch_TopTwo ==
  /\ pc = "retrieving"
  /\ \E r \in SimilaritySearch(store, RetrievalK + 1) :
       /\ searchData' = r
       /\ retrievals' = Append(retrievals,
            [query |-> userQuestion, k |-> RetrievalK + 1, result |-> r])
  /\ pc' = "generating"
  /\ UNCHANGED << envVars, disk, answers, args, trainingVars, error, store,
                  history, userQuestion, question, asked, requests,
                  completions >>

\* await store.similaritySearch(query, 1) resolves
GenerateResponseSearch ==
  /\ pc = "retrieving"
  /\ \E r \in SimilaritySearch(store, RetrievalK) :
       /\ searchData' = r
       /\ retrievals' = Append(retrievals,
            [query |-> userQuestion, k |-> RetrievalK, result |-> r])
  /\ pc' = "generating"
  /\ UNCHANGED << envVars, disk, answers, args, trainingVars, error, store,
                  history, userQuestion, question, asked, requests,
                  completions >>

\* the query embedding fails: nothing catches it, chatWithRepo rejects
GenerateResponseSearchFail ==
  /\ pc = "retrieving"
  /\ retrievals' = Append(retrievals,
       [query |-> userQuestion, k |-> RetrievalK, result |-> <<>>])
  /\ error' = "EmbeddingUnavailable"
  /\ pc' = "rejected"
  /\ UNCHANGED << envVars, disk, answers, args, trainingVars, store, history,
                  userQuestion, question, searchData, asked, requests,
                  completions >>

\* the request llmChain.predict receives
Request(h, query, d, lang) ==
  [query |-> query, context |-> Context(d), history |-> h, language |-> lang]

\* the exchange pushed with the answer first
PushTurn_AnswerFirst(h, query, answer) ==
  h \o << AssistantPrefix \o answer, HumanPrefix \o query >>

\* history.push(`Human: ${userQuestion}`, `Assistant: ${answer}`)
PushTurn(h, query, answer) ==
  h \o << HumanPrefix \o query, AssistantPrefix \o answer >>

\* await llmChain.predict(...) resolves; back in the loop the answer is
\* printed and the exchange pushed
GenerateResponsePredict ==
  /\ pc = "generating"
  /\ requests' = Append(requests,
       Request(history, userQuestion, searchData, answers.language))
  /\ \E answer \in Completions :
       /\ completions' = Append(completions, answer)
       /\ history' = PushTurn(history, userQuestion, answer)
  /\ pc' = "AwaitingInput"
  /\ UNCHANGED << envVars, disk, answers, args, trainingVars, error, store,
                  userQuestion, question, searchData, asked, retrievals >>

\* the completion call fails: nothing catches it, chatWithRepo rejects
GenerateResponsePredictFail ==
  /\ pc = "generating"
  /\ requests' = Append(requests,
       Request(history, userQuestion, searchData, answers.language))
  /\ error' = "GenerationUnavailable"
  /\ pc' = "rejected"
  /\ UNCHANGED << envVars, disk, answers, args, trainingVars, store, history,
                  userQuestion, question, searchData, asked, retrievals,
                  completions >>

(***************************************************************************)
(* Specification                                                           *)
(***************************************************************************)
Next ==
  \/ Main
  \/ MainTraining
  \/ MainChat
  \/ TrainingGlob
  \/ TrainingRead
  \/ TrainingReadFail
  \/ TrainingSplit
  \/ TrainingBuild
  \/ TrainingBuildFail
  \/ TrainingSave
  \/ SaveWrite
  \/ SaveComplete
  \/ SaveFail
  \/ ChatIndexNotFound
  \/ ChatLoadFail
  \/ ChatLoad
  \/ ChatPrompt
  \/ GenerateResponseSearch
  \/ GenerateResponseSearchFail
  \/ GenerateResponsePredict
  \/ GenerateResponsePredictFail

Spec == Init /\ [][Next]_vars

(***************************************************************************)
(* Properties                                                              *)
(***************************************************************************)
Range(s) == { s[i] : i \in 1..Len(s) }

StartsWith(s, p) == Len(p) <= Len(s) /\ SubSeq(s, 1, Len(p)) = p

InSession == pc \in {"AwaitingInput", "retrieving", "generating"}

\* C1: when the retrieval or the generation call of a non-exit turn fails,
\* the session stays in AwaitingInput and the history is what it was before
\* the failed turn.
C1_FailedTurnConfined ==
  [][ (pc \in {"retrieving", "generating"} /\ error = "none" /\ error' # "none")
        => (pc' = "AwaitingInput" /\ history' = history) ]_vars

\* the history after n answered turns: Human q1, Assistant a1, ..., oldest
\* first
RECURSIVE TurnsHistory(_)
TurnsHistory(n) ==
  IF n = 0 THEN <<>>
  ELSE TurnsHistory(n - 1)
         \o << <<"H", "u", "m", "a", "n", ":", " ">> \o asked[n], <<"A", "s", "s", "i", "s", "t", "a", "n", "t", ":", " ">> \o completions[n] >>

\* C2: the history handed to the generation request of turn i is exactly
\* [Human q1, Assistant a1, ..., Human q(i-1), Assistant a(i-1)], without qi;
\* after turn i completes the history has had (Human, qi) then
\* (Assistant, ai) appended, and no earlier entry is changed or removed.
C2_HistoryHandedInOrder ==
  /\ [](/\ \A i \in 1..Len(requests) :
             /\ requests[i].history = TurnsHistory(i - 1)
             /\ requests[i].query = asked[i]
        /\ Len(completions) <= Len(requests)
        /\ InSession => history = TurnsHistory(Len(completions)))
  /\ [][ /\ Len(history) <= Len(history')
         /\ SubSeq(history', 1, Len(history)) = history
         /\ Len(history') \in {Len(history), Len(history) + 2} ]_vars

C2_Witness ==
  /\ pc = "AwaitingInput"
  /\ Len(requests) = 2
  /\ requests[2].history = << <<"H", "u", "m", "a", "n", ":", " ", "h", "i">>, <<"A", "s", "s", "i", "s", "t", "a", "n", "t", ":", " ", "a", "1">> >>
  /\ history = << <<"H", "u", "m", "a", "n", ":", " ", "h", "i">>, <<"A", "s", "s", "i", "s", "t", "a", "n", "t", ":", " ", "a", "1">>,
                  <<"H", "u", "m", "a", "n", ":", " ", "e", "x", "i", "t", "s">>, <<"A", "s", "s", "i", "s", "t", "a", "n", "t", ":", " ", "a", "2">> >>

\* the lines that equal "exit" once trimmed, whatever their letter case
ExitLines == { l \in Questions :
                 \E a, b \in 0..Len(l) :
                   /\ a + 4 + b = Len(l)
                   /\ \A i \in 1..a : l[i] = " "
                   /\ \A i \in (a + 5)..Len(l) : l[i] = " "
                   /\ l[a + 1] \in {"e", "E"} /\ l[a + 2] \in {"x", "X"}
                   /\ l[a + 3] \in {"i", "I"} /\ l[a + 4] \in {"t", "T"} }

\* C3: in any session state an exit line moves the session to Terminated
\* without a retrieval or generation call and without changing the history;
\* once Terminated, no query is read and no call is made.
C3_ExitTerminates ==
  /\ [][ (pc = "AwaitingInput" /\ userQuestion' \in ExitLines)
           => /\ pc' = "Terminated"
              /\ UNCHANGED << history, retrievals, requests, asked >> ]_vars
  /\ [][ pc = "Terminated"
           => /\ pc' = "Terminated"
              /\ UNCHANGED << history, retrievals, requests, asked,
                              userQuestion >> ]_vars

C3_Witness ==
  /\ pc = "Terminated"
  /\ userQuestion = <<" ", "E", "x", "i", "t", " ">>
  /\ Len(history) = 2
  /\ Len(requests) = 1

\* C4: if reading a surviving file fails, or embedding/building the index
\* fails, the save is never invoked and the persisted index location is
\* left as it was before the run.
C4_FailedBuildNeverSaves ==
  (answers.selectedAction = "training"
     /\ error \in {"IndexBuildFailed", "EmbeddingUnavailable"})
    => (saveState = "idle" /\ ~reported /\ disk = disk0)

C4_Witness ==
  /\ error = "IndexBuildFailed"
  /\ pc = "rejected"
  /\ Len(data) >= 1
  /\ disk0.state = "index"

\* the credential is absent or blank
CredentialBlank(key) ==
  ~key.set \/ \A i \in 1..Len(key.value) : key.value[i] = " "

NoSessionWork ==
  /\ store = <<>> /\ userQuestion = <<>> /\ asked = <<>>
  /\ retrievals = <<>> /\ requests = <<>> /\ history = <<>>

NoTrainingWork ==
  /\ tree = {} /\ files = <<>> /\ readLog = <<>> /\ docs = <<>>
  /\ saveState = "idle" /\ disk = disk0

\* C5: without a credential main selects no action, trains nothing and
\* chats nothing; chat without a persisted index returns without loading an
\* index, reading a query, or making a retrieval or generation call.
C5_StartupGates ==
  /\ CredentialBlank(apiKey)
       => /\ pc \in {"main", "returned"}
          /\ answers = NoAnswers
          /\ NoTrainingWork
          /\ NoSessionWork
  /\ (answers.selectedAction = "chat" /\ disk0.state = "none")
       => /\ pc \in {"chat", "returned"}
          /\ NoSessionWork

C5_Witness ==
  /\ apiKey = [set |-> TRUE, value |-> <<" ", " ">>]
  /\ pc = "returned"

\* the directories a path lies under
DirsOf(comps) == { comps[i] : i \in 1..(Len(comps) - 1) }

\* the directory names the user typed
UserFolders ==
  { Trim(d) : d \in Range(Split(answers.excludedFolders, ",")) } \ { <<>> }

UnderExcludedDir(e) ==
  DirsOf(e.comps) \cap ({ <<"n", "o", "d", "e", "_", "m", "o", "d", "u", "l", "e", "s">>, <<"v", "e", "c", "t", "o", "r", "S", "t", "o", "r", "e">> } \cup UserFolders) # {}

GlobDone ==
  answers.selectedAction = "training" /\ pc \notin {"prompt", "training"}

\* C6: no file under a system-excluded or user-excluded directory is read,
\* and a file under no excluded directory is not dropped by the directory
\* filter.
C6_DirectoryExclusion ==
  GlobDone =>
    \A e \in tree :
      /\ UnderExcludedDir(e)
           => RelPath(e.comps, platform) \notin Range(files) \cup Range(readLog)
      /\ ( /\ ~UnderExcludedDir(e)
           /\ GlobMatch(Split(searchPattern, "/"), e.comps, FALSE)
           /\ PassesExtFilter(RelPath(e.comps, platform), args.excludeExt, platform)
           /\ PassesFileFilter(RelPath(e.comps, platform), args.excludeFiles) )
           => RelPath(e.comps, platform) \in Range(files)

\* the file names the user typed
UserFiles ==
  { Trim(d) : d \in Range(Split(answers.excludedFiles, ",")) } \ { <<>> }

\* C7: a file whose name equals an excluded file name is never read,
\* whatever directory it is in.
C7_FileNameExclusion ==
  \A e \in tree :
    e.comps[Len(e.comps)] \in ({ <<"p", "a", "c", "k", "a", "g", "e", "-", "l", "o", "c", "k", ".", "j", "s", "o", "n">> } \cup UserFiles)
      => RelPath(e.comps, platform) \notin Range(readLog)

\* the extensions the user typed
UserExtensions ==
  { Trim(d) : d \in Range(Split(answers.excludedExtensions, ",")) } \ { <<>> }

\* the extension of a file name: from its last dot on
NameExtension(name) ==
  IF \A i \in 1..Len(name) : name[i] # "." THEN <<>>
  ELSE LET m == CHOOSE i \in 1..Len(name) :
                  name[i] = "." /\ \A j \in (i + 1)..Len(name) : name[j] # "."
       IN  SubSeq(name, m, Len(name))

ExtensionExcluded(e) ==
  NameExtension(e.comps[Len(e.comps)])
    \in (Range(SYSTEM_EXCLUDE_EXTENSIONS) \cup UserExtensions)

\* one of the exclusions of training removes the entry
MatchedByExclusion(e) ==
  \/ Ignored(e.comps, args.excludeDir)
  \/ ~PassesExtFilter(RelPath(e.comps, platform), args.excludeExt, platform)
  \/ ~PassesFileFilter(RelPath(e.comps, platform), args.excludeFiles)
  \/ ~PassesDirFilter(RelPath(e.comps, platform), ExcludedDirArr(args.excludeDir))

\* the chunk starts with the provenance header of the entry
ChunkOf(c, e) ==
  StartsWith(c, <<"F", "I", "L", "E", " ", "N", "A", "M", "E", ":", " ">> \o RelPath(e.comps, platform) \o <<" ", "\n">>)

ChunksBuilt ==
  answers.selectedAction = "training" /\ pc = "building"

C9_RequestFromTopOne ==
  /\ \A i \in 1..Len(retrievals) :
       retrievals[i].k = 1 /\ retrievals[i].query = asked[i]
  /\ \A i \in 1..Len(requests) :
       /\ Len(retrievals[i].result) = 1
       /\ retrievals[i].result[1] \in Range(store)
       /\ requests[i].context = Join(retrievals[i].result, <<"\n", "\n">>)
       /\ Len(store) = 1 => requests[i].context = store[1]
       /\ requests[i].query = asked[i]
       /\ requests[i].language = answers.language
  /\ Len(requests) <= Len(retrievals) /\ Len(retrievals) <= Len(asked)
  /\ pc = "AwaitingInput" => Len(requests) = Len(asked)
  /\ (InSession \/ pc = "Terminated") => (store = disk0.docs /\ disk = disk0)

C9_Witness ==
  /\ pc = "AwaitingInput"
  /\ Len(store) = 2
  /\ Len(requests) = 2
  /\ requests[1].context = <<"c", "2">>
  /\ requests[2].context = <<"c", "1">>

\* C10: training reads all, chunks all, builds, then saves, and it reports
\* "VectorStore saved" and returns only after the save has completed.
C10_ReportedAfterSaveCompleted ==
  /\ pc \in {"building", "built"} => nextFile > Len(files)
  /\ saveState # "idle" => trainingStore = docs
  /\ reported => (saveState = "done" /\ disk = Index(trainingStore))
=============================================================================
